---- MODULE Spec2Model ----
(***************************************************************************)
(* A model of the charm build-recipe reconciliation tool of                *)
(* lp-builder-config: the project registry (GroupConfig), a CharmProject's *)
(* reconciliation against Launchpad (_calc_recipes_for_repo,               *)
(* ensure_git_repository, ensure_charm_recipes, print_diff), the helper    *)
(* calls of LaunchpadTools, and the commands of main.py.                   *)
(*                                                                         *)
(* Strings the code takes apart or puts together (channels, branch names,  *)
(* recipe-name templates, recipe names) are sequences of one-character     *)
(* strings.  Python's None is the one-element sequence <<"None">>.  A dict *)
(* is a record whose DOMAIN is the set of keys present; the keys           *)
(* 'auto-build', 'recipe-name', 'build-path', 'build-channels' and         *)
(* 'store-upload' are written with an underscore.                          *)
(***************************************************************************)
EXTENDS Integers, Sequences, FiniteSets, TLC

VARIABLES
    registry,   \* GroupConfig.charm_projects: the CharmProjects, in insertion order
    remote,     \* the state of Launchpad
    phase,      \* "load", "run", "done" (main.py), or "group" (see SpecGroup)
    cmd,        \* the command being run and its arguments
    idx,        \* the position in gc.projects() of the project handled next
    status,     \* "ok", or the exception that ended the run
    calls,      \* the calls made on Launchpad in this run, in order
    current,    \* what the last _calc_recipes_for_repo returned
    output,     \* what the command printed, one record per line
    last,       \* the last call of add_charm_project: its arguments, and what
                \* the message of the exception it raised was formatted from
    gin,        \* the argument of _group_channels
    gout        \* the value _group_channels returned

vars == <<registry, remote, phase, cmd, idx, status, calls, current, output,
          last, gin, gout>>

None == <<"None">>

\* The bounds of the model.
MaxAdds == 2
MaxChannels == 3

-----------------------------------------------------------------------------
(* Strings *)

RefPrefix == <<"r", "e", "f", "s", "/", "h", "e", "a", "d", "s", "/">>

\* str.replace(old, new) for one-character old and new
Replace(s, old, new) == [i \in 1..Len(s) |-> IF s[i] = old THEN new ELSE s[i]]

\* A character's code point, for the characters the model uses.
Ord(c) ==
    CASE c = "-" -> 45
      [] c = "." -> 46
      [] c = "/" -> 47
      [] c = "a" -> 97
      [] c = "d" -> 100
      [] c = "e" -> 101
      [] c = "f" -> 102
      [] c = "h" -> 104
      [] c = "l" -> 108
      [] c = "m" -> 109
      [] c = "p" -> 112
      [] c = "q" -> 113
      [] c = "r" -> 114
      [] c = "s" -> 115
      [] c = "x" -> 120
      [] c = "y" -> 121
      [] OTHER -> 127

\* Python's < on str
RECURSIVE StrLess(_, _)
StrLess(a, b) ==
    IF b = <<>> THEN FALSE
    ELSE IF a = <<>> THEN TRUE
    ELSE IF Head(a) = Head(b) THEN StrLess(Tail(a), Tail(b))
    ELSE Ord(Head(a)) < Ord(Head(b))

\* list(sorted(set)) of strings
RECURSIVE Sorted(_)
Sorted(S) ==
    IF S = {} THEN <<>>
    ELSE LET least == CHOOSE s \in S : \A t \in S \ {s} : StrLess(s, t)
         IN  <<least>> \o Sorted(S \ {least})

\* dict.update: the keys of d2 over those of d1
Update(d1, d2) ==
    [k \in DOMAIN d1 \cup DOMAIN d2 |-> IF k \in DOMAIN d2 THEN d2[k] ELSE d1[k]]

\* dict.get(key, default)
Get(d, key, default) == IF key \in DOMAIN d THEN d[key] ELSE default

-----------------------------------------------------------------------------
(* CharmProject._group_channels *)

\* channel.split('/', 1)[0] when '/' is in the channel, else the channel
Track(channel) ==
    IF \E i \in 1..Len(channel) : channel[i] = "/"
    THEN LET first == CHOOSE i \in 1..Len(channel) :
                          /\ channel[i] = "/"
                          /\ \A j \in 1..(i - 1) : channel[j] # "/"
         IN  SubSeq(channel, 1, first - 1)
    ELSE channel

\* The loop over the channels; groups is the OrderedDict as a sequence of
\* <<track, channels>> in insertion order.
RECURSIVE GroupLoop(_, _)
GroupLoop(channels, groups) ==
    IF channels = <<>> THEN groups
    ELSE LET channel == Head(channels)
             group == Track(channel)
         IN  IF \E i \in 1..Len(groups) : groups[i][1] = group
             THEN GroupLoop(Tail(channels),
                            [i \in 1..Len(groups) |->
                                IF groups[i][1] = group
                                THEN <<group, Append(groups[i][2], channel)>>
                                ELSE groups[i]])
             ELSE GroupLoop(Tail(channels), Append(groups, <<group, <<channel>>>>))

\* A grouping that starts a new group whenever the track differs from the
\* previous channel's, instead of looking the track up.
RECURSIVE GroupLoopAdjacent(_, _)
GroupLoopAdjacent(channels, groups) ==
    IF channels = <<>> THEN groups
    ELSE LET channel == Head(channels)
             group == Track(channel)
             n == Len(groups)
         IN  IF n > 0 /\ groups[n][1] = group
             THEN GroupLoopAdjacent(Tail(channels),
                     [groups EXCEPT ![n] = <<group, Append(groups[n][2], channel)>>])
             ELSE GroupLoopAdjacent(Tail(channels),
                                    Append(groups, <<group, <<channel>>>>))

_group_channels_adjacent(channels) == GroupLoopAdjacent(channels, <<>>)

_group_channels(channels) == GroupLoop(channels, <<>>)

-----------------------------------------------------------------------------
(* CharmProject: construction and merge *)

default_branch_info ==
    [auto_build |-> TRUE,
     upload |-> TRUE,
     recipe_name |-> <<"{project}", ".", "{branch}", ".", "{track}">>]

\* A branches value that is not a dict (YAML "main:" with nothing under it).
NotADict == [notdict |-> TRUE]
IsDict(v) == "notdict" \notin DOMAIN v

\* type(branch_info), as the message of the ValueError shows it
type(v) == IF IsDict(v) THEN <<"<class 'dict'>">> ELSE <<"<class 'NoneType'>">>

\* An _add_branches without "if ref not in self.branches": a branch named
\* again starts from the defaults again.
RECURSIVE _add_branches_resetting(_, _)
_add_branches_resetting(branches, branches_spec) ==
    IF branches_spec = <<>> THEN [branches |-> branches, err |-> "ok", args |-> <<>>]
    ELSE LET branch == Head(branches_spec)[1]
             branch_info == Head(branches_spec)[2]
             ref == RefPrefix \o branch
             withRef == (ref :> default_branch_info) @@ branches
         IN  IF ~IsDict(branch_info)
             THEN [branches |-> withRef, err |-> "ValueError:notdict",
                   args |-> <<type(branch_info)>>]
             ELSE _add_branches_resetting(
                     [withRef EXCEPT ![ref] = Update(withRef[ref], branch_info)],
                     Tail(branches_spec))

\* An _add_branches without the test of the type: dict.update(None) is a
\* TypeError.
RECURSIVE _add_branches_unchecked(_, _)
_add_branches_unchecked(branches, branches_spec) ==
    IF branches_spec = <<>> THEN [branches |-> branches, err |-> "ok", args |-> <<>>]
    ELSE LET branch == Head(branches_spec)[1]
             branch_info == Head(branches_spec)[2]
             ref == RefPrefix \o branch
             withRef == IF ref \in DOMAIN branches THEN branches
                        ELSE (ref :> default_branch_info) @@ branches
         IN  IF ~IsDict(branch_info)
             THEN [branches |-> withRef, err |-> "TypeError", args |-> <<>>]
             ELSE _add_branches_unchecked(
                     [withRef EXCEPT ![ref] = Update(withRef[ref], branch_info)],
                     Tail(branches_spec))

\* _add_branches: branches_spec is the dict's items, in order.  The result is
\* the new self.branches and "ok" or the exception raised.
RECURSIVE _add_branches(_, _)
_add_branches(branches, branches_spec) ==
    IF branches_spec = <<>> THEN [branches |-> branches, err |-> "ok", args |-> <<>>]
    ELSE LET branch == Head(branches_spec)[1]
             branch_info == Head(branches_spec)[2]
             ref == RefPrefix \o branch
             withRef == IF ref \in DOMAIN branches THEN branches
                        ELSE (ref :> default_branch_info) @@ branches
         IN  IF ~IsDict(branch_info)
             THEN [branches |-> withRef, err |-> "ValueError:notdict",
                   args |-> <<type(branch_info)>>]
             ELSE _add_branches(
                     [withRef EXCEPT ![ref] = Update(withRef[ref], branch_info)],
                     Tail(branches_spec))

NoBranches == [r \in {} |-> default_branch_info]

\* CharmProject.__init__
NewCharmProject(config) ==
    LET added == _add_branches(NoBranches, Get(config, "branches", <<>>))
    IN  [cp |-> [name |-> Get(config, "name", None),
                 team |-> Get(config, "team", None),
                 charmhub_name |-> Get(config, "charmhub", None),
                 launchpad_project |-> Get(config, "launchpad", None),
                 repository |-> Get(config, "repository", None),
                 branches |-> added.branches],
         err |-> added.err,
         args |-> added.args]

\* CharmProject.merge
merge(cp, config) ==
    LET added == _add_branches(cp.branches, Get(config, "branches", <<>>))
    IN  [cp |-> [name |-> Get(config, "name", cp.name),
                 team |-> Get(config, "team", cp.team),
                 charmhub_name |-> Get(config, "charmhub", cp.charmhub_name),
                 launchpad_project |-> Get(config, "launchpad", cp.launchpad_project),
                 repository |-> Get(config, "repository", cp.repository),
                 branches |-> added.branches],
         err |-> added.err,
         args |-> added.args]

-----------------------------------------------------------------------------
(* GroupConfig *)

Names(reg) == {reg[i].name : i \in 1..Len(reg)}

Position(reg, name) == CHOOSE i \in 1..Len(reg) : reg[i].name = name

\* A merge that replaces the registered project by a new one built from the
\* second declaration alone.
add_charm_project_replacing(reg, project_config, merge_flag) ==
    LET name == Get(project_config, "name", None)
        made == NewCharmProject(project_config)
    IN  IF name \in Names(reg)
        THEN IF merge_flag
             THEN [registry |-> [reg EXCEPT ![Position(reg, name)] = made.cp],
                   err |-> made.err, args |-> made.args]
             ELSE [registry |-> [reg EXCEPT ![Position(reg, name)] = made.cp],
                   err |-> "ok", args |-> <<>>]
        ELSE IF made.err = "ok"
             THEN [registry |-> Append(reg, made.cp), err |-> "ok", args |-> <<>>]
             ELSE [registry |-> reg, err |-> made.err, args |-> made.args]

\* GroupConfig.add_charm_project: the new registry, and "ok" or the exception.
add_charm_project(reg, project_config, merge_flag) ==
    LET name == Get(project_config, "name", None)
    IN  IF name \in Names(reg)
        THEN IF merge_flag
             THEN LET merged == merge(reg[Position(reg, name)], project_config)
                  IN  [registry |-> [reg EXCEPT ![Position(reg, name)] = merged.cp],
                       err |-> merged.err, args |-> merged.args]
             ELSE [registry |-> reg, err |-> "ValueError:exists", args |-> <<name>>]
        ELSE LET made == NewCharmProject(project_config)
             IN  IF made.err = "ok"
                 THEN [registry |-> Append(reg, made.cp), err |-> "ok", args |-> <<>>]
                 ELSE [registry |-> reg, err |-> made.err, args |-> made.args]

\* GroupConfig.projects(select)
projects(reg, select) ==
    SelectSeq(reg, LAMBDA project : select = {} \/ project.name \in select)

-----------------------------------------------------------------------------------------------------------------------------------------------------
(* Launchpad, as LaunchpadTools sees it *)

Call(op, on) == [op |-> op, on |-> on]

MutatingOps == {"import_repository", "set_default_repository",
                "project.lp_save", "create_charm_recipe", "recipe.lp_save"}

Mutating(cs) == {i \in 1..Len(cs) : cs[i].op \in MutatingOps}

\* The least of a set of positions, 0 of none.
First(positions) ==
    IF positions = {} THEN 0 ELSE CHOOSE i \in positions : \A j \in positions : i <= j

\* LaunchpadTools.get_git_repository: the position in the project's
\* repositories of the first one the owner owns, 0 for None.
get_git_repository(rem, owner, project) ==
    First({i \in 1..Len(rem.repos[project]) : rem.repos[project][i].owner = owner})

\* LaunchpadTools.import_repository: project.newCodeImport makes a repository of
\* the owner's; its branches are not there until Launchpad has run the import.
import_repository(rem, owner, project, url) ==
    [rem EXCEPT !.repos[project] =
        Append(@, [owner |-> owner, target_default |-> FALSE, branches |-> <<>>])]

\* LaunchpadTools.set_default_repository
set_default_repository(rem, project, repo) ==
    [rem EXCEPT !.repos[project] =
        [i \in 1..Len(@) |-> [@[i] EXCEPT !.target_default = (i = repo)]]]

\* LaunchpadTools.get_charm_recipes
get_charm_recipes(rem, owner, project) ==
    SelectSeq(rem.recipes, LAMBDA r : r.owner = owner /\ r.project = project)

RecipeParts == <<"auto_build", "auto_build_channels", "build_path",
                 "store_channels", "store_upload">>

\* What diff_charm_recipe returns for the parts that differ
Differing(wanted, differing) ==
    [changed |-> differing # {},
     updated_parts |-> [k \in differing |-> wanted[k]],
     changes |-> SelectSeq(RecipeParts, LAMBDA k : k \in differing)]

\* LaunchpadTools.diff_charm_recipe: (changed, changes, changed list); wanted
\* holds the five keyword arguments.
diff_charm_recipe(recipe, wanted) ==
    Differing(wanted, {k \in DOMAIN wanted : recipe[k] # wanted[k]})

\* The recipe LaunchpadTools.create_charm_recipe asks Launchpad for:
\* store_channels and auto_build_channels are passed only when set, build_path
\* never; Launchpad keeps [] and None for what is not passed.
create_charm_recipe(recipe_name, branch_info, lp_branch, owner, project, store_name, channels) ==
    [name |-> recipe_name,
     owner |-> owner,
     project |-> project,
     git_ref |-> lp_branch,
     store_name |-> store_name,
     auto_build |-> Get(branch_info, "auto_build", TRUE),
     store_upload |-> Get(branch_info, "upload", TRUE),
     store_channels |-> IF Get(branch_info, "upload", TRUE) /\ channels # <<>>
                        THEN channels ELSE <<>>,
     auto_build_channels |-> Get(branch_info, "build_channels", None),
     build_path |-> None]

-----------------------------------------------------------------------------
(* CharmProject._calc_recipes_for_repo *)

\* str.format(project=, branch=, track=) of a recipe-name template
RECURSIVE format(_, _, _, _)
format(recipe_format, project, branch, track) ==
    IF recipe_format = <<>> THEN <<>>
    ELSE (CASE Head(recipe_format) = "{project}" -> project
            [] Head(recipe_format) = "{branch}" -> branch
            [] Head(recipe_format) = "{track}" -> track
            [] OTHER -> <<Head(recipe_format)>>)
         \o format(Tail(recipe_format), project, branch, track)

\* lp_branch.path[len('refs/heads/'):].replace('/', '-')
BranchName(path) == Replace(SubSeq(path, Len(RefPrefix) + 1, Len(path)), "/", "-")

\* An all_recipes that keeps the entry it has for a name.
Put_keeping_first(all_recipes, entry) ==
    IF \E i \in 1..Len(all_recipes) : all_recipes[i].name = entry.name
    THEN all_recipes
    ELSE Append(all_recipes, entry)

\* all_recipes[recipe_name] = entry, on an OrderedDict kept as a sequence
Put(all_recipes, entry) ==
    IF \E i \in 1..Len(all_recipes) : all_recipes[i].name = entry.name
    THEN [i \in 1..Len(all_recipes) |->
            IF all_recipes[i].name = entry.name THEN entry ELSE all_recipes[i]]
    ELSE Append(all_recipes, entry)

\* The keyword arguments of the diff_charm_recipe call
Wanted(branch_info, track_channels) ==
    [auto_build |-> Get(branch_info, "auto_build", None),
     auto_build_channels |-> Get(branch_info, "build_channels", None),
     build_path |-> Get(branch_info, "build_path", None),
     store_channels |-> track_channels,
     store_upload |-> Get(branch_info, "upload", None)]

\* all_recipes[recipe_name] for a recipe Launchpad has
FoundEntry(lp_recipe, diff, build_from) ==
    [name |-> build_from.recipe_name,
     exists |-> TRUE,
     changed |-> diff.changed,
     current_recipe |-> <<lp_recipe>>,
     updated_parts |-> diff.updated_parts,
     changes |-> diff.changes,
     build_from |-> build_from]

\* all_recipes[recipe_name] for a recipe Launchpad has not
MissingEntry(build_from) ==
    [name |-> build_from.recipe_name,
     exists |-> FALSE,
     changed |-> FALSE,
     current_recipe |-> <<>>,
     updated_parts |-> <<>>,
     changes |-> <<>>,
     build_from |-> build_from]

\* A loop body that looks the recipe up with get() and leaves it in
\* charm_lp_recipe_map.
PopAndRecord_keeping(acc, popped, build_from) ==
    [recipe_map |-> acc.recipe_map,
     all_recipes |->
        Put(acc.all_recipes,
            IF popped # <<>>
            THEN FoundEntry(popped[1],
                            diff_charm_recipe(popped[1],
                                Wanted(build_from.branch_info, build_from.channels)),
                            build_from)
            ELSE MissingEntry(build_from)),
     no_recipe_branches |-> acc.no_recipe_branches]

\* The body of the loop over the tracks, from the pop on; popped is what
\* charm_lp_recipe_map.pop(recipe_name, None) found.  acc holds
\* charm_lp_recipe_map, all_recipes and no_recipe_branches.
PopAndRecord(acc, popped, build_from) ==
    [recipe_map |-> SelectSeq(acc.recipe_map,
                              LAMBDA r : r.name # build_from.recipe_name),
     all_recipes |->
        Put(acc.all_recipes,
            IF popped # <<>>
            THEN FoundEntry(popped[1],
                            diff_charm_recipe(popped[1],
                                Wanted(build_from.branch_info, build_from.channels)),
                            build_from)
            ELSE MissingEntry(build_from)),
     no_recipe_branches |-> acc.no_recipe_branches]

\* The body of the loop over the tracks
TrackStep(cp, lp_branch, branch_info, recipe_name, track_channels, acc) ==
    PopAndRecord(acc,
                 SelectSeq(acc.recipe_map, LAMBDA r : r.name = recipe_name),
                 [recipe_name |-> recipe_name,
                  branch_info |-> branch_info,
                  lp_branch |-> lp_branch,
                  store_name |-> cp.charmhub_name,
                  channels |-> track_channels])

\* The loop over the tracks of one branch
RECURSIVE TrackLoop(_, _, _, _, _)
TrackLoop(cp, lp_branch, branch_info, tracks, acc) ==
    IF tracks = <<>> THEN acc
    ELSE TrackLoop(cp, lp_branch, branch_info, Tail(tracks),
                   TrackStep(cp, lp_branch, branch_info,
                             format(branch_info.recipe_name, cp.launchpad_project,
                                    BranchName(lp_branch), Head(tracks)[1]),
                             Head(tracks)[2], acc))

Latest == <<"l", "a", "t", "e", "s", "t">>

\* The tracks of a branch that ignore upload.
TracksIgnoringUpload(branch_info) ==
    IF Get(branch_info, "channels", <<>>) # <<>>
    THEN _group_channels(branch_info.channels)
    ELSE << <<Latest, <<>>>> >>

\* The tracks of a branch: the grouped channels, or the one track "latest".
TracksOf(branch_info) ==
    IF Get(branch_info, "upload", TRUE) /\ Get(branch_info, "channels", <<>>) # <<>>
    THEN _group_channels(branch_info.channels)
    ELSE << <<Latest, <<>>>> >>

\* The loop over the branches of the repository
RECURSIVE BranchLoop(_, _, _)
BranchLoop(cp, lp_branches, acc) ==
    IF lp_branches = <<>> THEN acc
    ELSE IF Head(lp_branches) \notin DOMAIN cp.branches
    THEN BranchLoop(cp, Tail(lp_branches),
                    [acc EXCEPT !.no_recipe_branches = Append(@, Head(lp_branches))])
    ELSE BranchLoop(cp, Tail(lp_branches),
                    TrackLoop(cp, Head(lp_branches), cp.branches[Head(lp_branches)],
                              TracksOf(cp.branches[Head(lp_branches)]), acc))

\* {recipe.name: recipe for recipe in lp_recipes}: of two recipes of one
\* name the later stays.
RecipeMap(lp_recipes) ==
    SelectSeq([i \in 1..Len(lp_recipes) |->
                  IF \E j \in (i + 1)..Len(lp_recipes) :
                        lp_recipes[j].name = lp_recipes[i].name
                  THEN [name |-> None] ELSE lp_recipes[i]],
              LAMBDA r : r.name # None)

Range(s) == {s[i] : i \in 1..Len(s)}

\* A missing_branches_in_repo that lists every declared branch.
MissingBranchesAll(declared, lp_branches) == Sorted(declared)

\* missing_branches_in_repo
MissingBranches(declared, lp_branches) == Sorted(declared \ Range(lp_branches))

\* The dict _calc_recipes_for_repo returns; valid and project are the model's
\* own, to tell a result from none and to name the project it is of.
CalcResult(cp, lp_recipes, lp_branches, looped) ==
    [valid |-> TRUE,
     project |-> cp.name,
     lp_recipes |-> lp_recipes,
     non_config_recipes |-> looped.recipe_map,
     in_config_recipes |-> looped.all_recipes,
     no_recipe_branches |-> looped.no_recipe_branches,
     missing_branches_in_repo |-> MissingBranches(DOMAIN cp.branches, lp_branches)]

\* _calc_recipes_for_repo on the recipes and branches read
CalcFrom(cp, lp_recipes, lp_branches) ==
    CalcResult(cp, lp_recipes, lp_branches,
               BranchLoop(cp, lp_branches,
                          [recipe_map |-> RecipeMap(lp_recipes),
                           all_recipes |-> <<>>,
                           no_recipe_branches |-> <<>>]))

\* _calc_recipes_for_repo, for the repository at position repo
_calc_recipes_for_repo(cp, rem, repo) ==
    CalcFrom(cp, get_charm_recipes(rem, cp.team, cp.launchpad_project),
             rem.repos[cp.launchpad_project][repo].branches)

NoResult == [valid |-> FALSE]

-----------------------------------------------------------------------------
(* CharmProject: the operations on Launchpad *)

\* What an operation hands back: Launchpad and the calls after it, "ok" or
\* the exception it raised, the repository it resolved (0 for None), the
\* result of _calc_recipes_for_repo if it got that far, the lines it printed.
Outcome(rem, cs, err, repo, result, printed) ==
    [remote |-> rem, calls |-> cs, err |-> err, repo |-> repo,
     current |-> result, printed |-> printed]

\* ensure_git_repository from "if not self.lp_project.vcs" on
EnsureVcs(cp, rem, cs, repo) ==
    IF rem.projects[cp.launchpad_project].vcs = None
    THEN Outcome([rem EXCEPT !.projects[cp.launchpad_project].vcs = <<"Git">>],
                 Append(cs, Call("project.lp_save", cp.launchpad_project)),
                 "ok", repo, NoResult, <<>>)
    ELSE Outcome(rem, cs, "ok", repo, NoResult, <<>>)

\* ensure_git_repository from "if not self.lp_repo.target_default" on; fails
\* says whether Launchpad refuses setDefaultRepository.
EnsureDefault(cp, rem, cs, repo, fails) ==
    IF rem.repos[cp.launchpad_project][repo].target_default
    THEN EnsureVcs(cp, rem, cs, repo)
    ELSE IF fails
    THEN EnsureVcs(cp, rem,
                   Append(cs, Call("set_default_repository", cp.launchpad_project)),
                   repo)
    ELSE EnsureVcs(cp, set_default_repository(rem, cp.launchpad_project, repo),
                   cs \o <<Call("set_default_repository", cp.launchpad_project),
                           Call("repo.lp_refresh", cp.launchpad_project)>>,
                   repo)

\* ensure_git_repository from "if self.lp_repo is None" on; found is what
\* get_git_repository returned.
EnsureRepo(cp, rem, cs, found, fails) ==
    IF found = 0
    THEN EnsureDefault(cp,
            import_repository(rem, cp.team, cp.launchpad_project, cp.repository),
            Append(cs, Call("import_repository", cp.launchpad_project)),
            Len(rem.repos[cp.launchpad_project]) + 1, fails)
    ELSE EnsureDefault(cp, rem, cs, found, fails)

\* The calls that resolve the project, the team and the repository
Resolving(cp, cs, n) ==
    cs \o SubSeq(<<Call("get_lp_project_for", cp.launchpad_project),
                   Call("get_lp_team_for", cp.team),
                   Call("get_git_repository", cp.launchpad_project)>>, 1, n)

\* An ensure_git_repository without the check of the project's owner.
ensure_git_repository_any_owner(cp, rem, cs, fails) ==
    IF cp.launchpad_project \notin DOMAIN rem.projects
    THEN Outcome(rem, Resolving(cp, cs, 1), "KeyError", 0, NoResult, <<>>)
    ELSE IF cp.team \notin rem.people
    THEN Outcome(rem, Resolving(cp, cs, 2), "KeyError", 0, NoResult, <<>>)
    ELSE EnsureRepo(cp, rem, Resolving(cp, cs, 3),
                    get_git_repository(rem, cp.team, cp.launchpad_project), fails)

\* ensure_git_repository
ensure_git_repository(cp, rem, cs, fails) ==
    IF cp.launchpad_project \notin DOMAIN rem.projects
    THEN Outcome(rem, Resolving(cp, cs, 1), "KeyError", 0, NoResult, <<>>)
    ELSE IF cp.team \notin rem.people
    THEN Outcome(rem, Resolving(cp, cs, 2), "KeyError", 0, NoResult, <<>>)
    ELSE IF rem.projects[cp.launchpad_project].owner # cp.team
    THEN Outcome(rem, Resolving(cp, cs, 2), "ValueError:owner", 0, NoResult, <<>>)
    ELSE EnsureRepo(cp, rem, Resolving(cp, cs, 3),
                    get_git_repository(rem, cp.team, cp.launchpad_project), fails)

\* CharmProject.__str__: "ok", or the exception it raises
__str__(cp) ==
    IF \E ref \in DOMAIN cp.branches : "channels" \notin DOMAIN cp.branches[ref]
    THEN "KeyError"
    ELSE IF DOMAIN cp.branches = {} THEN "UnboundLocalError"
    ELSE "ok"

\* any_changes, as ensure_charm_recipes and print_diff compute it
any_changes(info) ==
    \A i \in 1..Len(info.in_config_recipes) :
        \/ ~info.in_config_recipes[i].exists
        \/ info.in_config_recipes[i].changed

\* The loop of ensure_charm_recipes over current['in_config_recipes']: the
\* iteration yields the dict's keys, and each key, a recipe name, is unpacked
\* into (recipe_name, state).  A name of other than two characters does not
\* unpack; of a name of two, state is the second character and state['exists']
\* is a TypeError.  Either way the first entry ends the loop, before any
\* recipe is saved or created.
RecipeLoop(in_config_recipes) ==
    IF in_config_recipes = <<>> THEN "ok"
    ELSE IF Len(in_config_recipes[1].name) # 2 THEN "ValueError:unpack"
    ELSE "TypeError"

\* The calls of _calc_recipes_for_repo
Reading(cp, cs) ==
    cs \o <<Call("get_charm_recipes", cp.launchpad_project),
            Call("repo.branches", cp.launchpad_project)>>

\* An ensure_charm_recipes that removes the recipes left in
\* charm_lp_recipe_map, as its TODO considers.
RemoveExtraRecipes(cp, rem, cs, repo, info) ==
    Outcome([rem EXCEPT !.recipes =
                SelectSeq(@, LAMBDA r : \A i \in 1..Len(info.non_config_recipes) :
                                            r # info.non_config_recipes[i])],
            Reading(cp, cs),
            IF any_changes(info) THEN RecipeLoop(info.in_config_recipes) ELSE "ok",
            repo, info, <<>>)

\* ensure_charm_recipes from the result of _calc_recipes_for_repo on
ApplyRecipes(cp, rem, cs, repo, info) ==
    Outcome(rem, Reading(cp, cs),
            IF any_changes(info) THEN RecipeLoop(info.in_config_recipes) ELSE "ok",
            repo, info, <<>>)

\* An ensure_charm_recipes whose self.lp_repo is not cached: the repository
\* is looked up again.
ensure_charm_recipes_uncached(cp, rem, cs, repo) ==
    IF __str__(cp) # "ok" THEN Outcome(rem, cs, __str__(cp), repo, NoResult, <<>>)
    ELSE ApplyRecipes(cp, rem,
                      Append(cs, Call("get_git_repository", cp.launchpad_project)),
                      repo, _calc_recipes_for_repo(cp, rem, repo))

\* ensure_charm_recipes, called with the project and repository resolved.
ensure_charm_recipes(cp, rem, cs, repo) ==
    IF __str__(cp) # "ok" THEN Outcome(rem, cs, __str__(cp), repo, NoResult, <<>>)
    ELSE ApplyRecipes(cp, rem, cs, repo, _calc_recipes_for_repo(cp, rem, repo))

\* The line print_diff prints
DiffLine(cp, text, info) ==
    <<[project |-> cp.name, text |-> text,
       extra |-> Len(info.non_config_recipes)]>>

\* print(f"{self.name[:35]:35} ..."): of a project without a name, None[:35]
\* is a TypeError and nothing is printed.
Printing(cp, outcome) ==
    IF cp.name = None
    THEN [outcome EXCEPT !.err = "TypeError", !.printed = <<>>]
    ELSE outcome

\* print_diff from the result of _calc_recipes_for_repo on
PrintInfo(cp, rem, cs, repo, info) ==
    Printing(cp,
        Outcome(rem, cs, "ok", repo, info,
            DiffLine(cp, IF any_changes(info) \/ info.missing_branches_in_repo # <<>>
                         THEN "Changes required" ELSE "No changes needed", info)))

\* print_diff from self.lp_repo on.  get_git_repository hands back None for no
\* repository and never raises, so the "No repo configured!" line is not
\* reached: without a repository self.lp_repo.branches is an AttributeError.
PrintRepo(cp, rem, cs, repo) ==
    IF repo = 0
    THEN Outcome(rem,
                 cs \o <<Call("get_charm_recipes", cp.launchpad_project),
                         Call("get_git_repository", cp.launchpad_project)>>,
                 "AttributeError", 0, NoResult, <<>>)
    ELSE PrintInfo(cp, rem, Reading(cp, cs), repo, _calc_recipes_for_repo(cp, rem, repo))

\* A print_diff that makes sure of the repository first, as sync does.
print_diff_importing(cp, rem, cs) ==
    ensure_git_repository(cp, rem, cs, FALSE)

\* print_diff
print_diff(cp, rem, cs) ==
    IF cp.launchpad_project \notin DOMAIN rem.projects
    THEN Printing(cp,
             Outcome(rem, Resolving(cp, cs, 1), "ok", 0, NoResult,
                     <<[project |-> cp.name, text |-> "Project doesn't exist!!",
                        extra |-> 0]>>))
    ELSE IF cp.team \notin rem.people
    THEN Outcome(rem, Resolving(cp, cs, 2), "KeyError", 0, NoResult, <<>>)
    ELSE PrintRepo(cp, rem, Resolving(cp, cs, 3),
                   get_git_repository(rem, cp.team, cp.launchpad_project))

-----
(* The configurations and the states of Launchpad the model draws from *)

A == <<"A">>
B == <<"B">>
T == <<"t">>
U == <<"u">>
P == <<"p">>
Q == <<"q">>
M == <<"m">>
SX == <<"s", "/", "x">>
S_X == <<"s", "-", "x">>
X == <<"x">>
XE == <<"x", "/", "e">>
XS == <<"x", "/", "s">>
YE == <<"y", "/", "e">>
Charmcraft == <<"charmcraft", "latest/edge">>

Full(name, launchpad, store, branches) ==
    [name |-> name, team |-> T, charmhub |-> store, launchpad |-> launchpad,
     repository |-> <<"https://">> \o launchpad, branches |-> branches]

ProjectConfigs ==
    { Full(A, P, <<"c">>, << <<M, [channels |-> <<XE, YE, XS>>]>> >>),
      Full(A, P, <<"c">>, << <<M, [channels |-> <<XE>>]>>,
                             <<SX, [channels |-> <<XE>>]>> >>),
      Full(A, P, <<"c">>, << <<M, [store_upload |-> FALSE,
                                   build_channels |-> Charmcraft]>> >>),
      [name |-> A, team |-> T, charmhub |-> <<"c2">>, launchpad |-> P,
       repository |-> <<"https://p">>],
      [name |-> A, branches |-> << <<M, [upload |-> FALSE]>> >>],
      [name |-> A, branches |-> << <<M, [build_path |-> <<"d">>,
                                         build_channels |-> Charmcraft,
                                         auto_build |-> FALSE]>> >>],
      [name |-> A, branches |-> << <<M, [recipe_name |->
                                            <<"{project}", ".", "{branch}">>]>> >>],
      [name |-> A, branches |-> << <<S_X, [channels |-> <<XE, YE>>]>> >>],
      [name |-> A, branches |-> << <<SX, [channels |-> <<X>>]>>, <<M, NotADict>> >>],
      Full(A, P, <<"c">>, << <<M, [channels |-> <<XE, YE>>, upload |-> FALSE]>> >>),
      Full(A, P, <<"c">>, << <<SX, [channels |-> <<XE>>]>>,
                             <<S_X, [channels |-> <<XE>>]>> >>),
      Full(B, Q, <<"b">>, << <<M, [channels |-> <<XE>>]>> >>),
      [team |-> T, launchpad |-> P] }

Recipe(project, name, store_channels, store_upload) ==
    [name |-> name, owner |-> T, project |-> project,
     git_ref |-> RefPrefix \o M, store_name |-> <<"c">>,
     auto_build |-> TRUE, auto_build_channels |-> None, build_path |-> None,
     store_channels |-> store_channels, store_upload |-> store_upload]

PMX == <<"p", ".", "m", ".", "x">>
PMY == <<"p", ".", "m", ".", "y">>
PSX == <<"p", ".", "s", "-", "x", ".", "x">>
PML == <<"p", ".", "m", ".", "l", "a", "t", "e", "s", "t">>
Orphan == <<"p", ".", "l", "e", "g", "a", "c", "y", ".", "l", "a", "t", "e", "s", "t">>

RecipeLists ==
    { <<>>,
      <<Recipe(P, PMX, <<XE, XS>>, TRUE)>>,
      <<Recipe(P, PMX, <<XE, XS>>, TRUE), Recipe(P, PMY, <<YE>>, TRUE)>>,
      <<Recipe(P, Orphan, <<XE>>, TRUE), Recipe(P, PMX, <<XE>>, TRUE),
        Recipe(P, PMY, <<YE>>, TRUE)>>,
      <<Recipe(P, PMX, <<XE>>, TRUE), Recipe(P, PSX, <<XE>>, TRUE)>>,
      <<Recipe(P, PML, <<>>, FALSE), Recipe(P, Orphan, <<>>, FALSE)>>,
      <<Recipe(P, PML, <<>>, TRUE), Recipe(P, PMX, <<XE, XS>>, FALSE)>>,
      <<Recipe(Q, PMX, <<XE>>, TRUE), Recipe(P, Orphan, <<XE>>, TRUE)>> }

BranchLists ==
    { <<RefPrefix \o M>>,
      <<RefPrefix \o M, RefPrefix \o SX>>,
      <<RefPrefix \o SX, RefPrefix \o <<"o">>, RefPrefix \o S_X, RefPrefix \o M>> }

Repo(owner, target_default, branches) ==
    [owner |-> owner, target_default |-> target_default, branches |-> branches]

\* Launchpad with project q as it should be and project p as given.
Launchpad(people, p, repos, recipes) ==
    [people |-> people,
     projects |-> p @@ (Q :> [owner |-> T, vcs |-> <<"Git">>]),
     repos |-> (P :> repos) @@ (Q :> <<Repo(T, TRUE, <<RefPrefix \o M>>)>>),
     recipes |-> recipes]

Healthy == (P :> [owner |-> T, vcs |-> <<"Git">>])

Remotes ==
    { Launchpad({T, U}, Healthy, <<Repo(T, TRUE, branches)>>, recipes) :
        branches \in BranchLists, recipes \in RecipeLists }
    \cup
    { Launchpad({T, U}, [q \in {} |-> None], <<>>, <<>>),
      Launchpad({U}, Healthy, <<Repo(T, TRUE, <<RefPrefix \o M>>)>>, <<>>),
      Launchpad({T, U}, (P :> [owner |-> U, vcs |-> <<"Git">>]),
                <<Repo(T, TRUE, <<RefPrefix \o M>>)>>, <<>>),
      Launchpad({T, U}, Healthy, <<>>, <<Recipe(P, Orphan, <<XE>>, TRUE)>>),
      Launchpad({T, U}, Healthy, <<Repo(U, TRUE, <<RefPrefix \o M>>)>>, <<>>),
      Launchpad({T, U}, (P :> [owner |-> T, vcs |-> None]),
                <<Repo(U, TRUE, <<>>), Repo(T, FALSE, <<RefPrefix \o M>>)>>,
                <<Recipe(P, Orphan, <<XE>>, TRUE)>>) }

Channels == {X, XE, XS, YE, <<"/", "e">>}

-----------------------------------------------------------------------------
(* main.py: loading the configuration and running a command *)

NoCmd == [name |-> "none", confirmed |-> FALSE]

Commands == {[name |-> "sync", confirmed |-> TRUE],
             [name |-> "sync", confirmed |-> FALSE],
             [name |-> "diff", confirmed |-> FALSE],
             [name |-> "list", confirmed |-> FALSE],
             [name |-> "show", confirmed |-> FALSE]}

Init ==
    /\ registry = <<>>
    /\ remote \in Remotes
    /\ phase = "load"
    /\ cmd = NoCmd
    /\ idx = 1
    /\ status = "ok"
    /\ calls = <<>>
    /\ current = NoResult
    /\ output = <<>>
    /\ last = [n |-> 0]
    /\ gin = <<>>
    /\ gout = <<>>

\* The defaults of a group file: none, or a team and branches.
NoDefaults == [key \in {} |-> None]

Defaults ==
    { NoDefaults,
      [team |-> T,
       branches |-> << <<M, [channels |-> <<XE>>]>>,
                       <<S_X, [channels |-> <<YE>>]>> >>] }

\* A loop of setdefault that lets the defaults win over the project's keys.
setdefault_overriding(project, project_defaults) ==
    Update(project, project_defaults)

\* load_files: for key, value in project_defaults.items():
\*                 project.setdefault(key, value)
setdefault(project, project_defaults) == Update(project_defaults, project)

\* load_files, for one project of a group file: the defaults are set on it and
\* it is added, without merge.  An exception leaves main().
LoadProject(project_defaults, project) ==
    /\ phase = "load"
    /\ last.n < MaxAdds
    /\ LET added == add_charm_project(
                        registry, setdefault(project, project_defaults), FALSE)
       IN  /\ registry' = added.registry
           /\ status' = added.err
           /\ phase' = IF added.err = "ok" THEN "load" ELSE "done"
    /\ last' = [n |-> last.n + 1,
                config |-> setdefault(project, project_defaults),
                merge |-> FALSE,
                defaults |-> project_defaults,
                project |-> project,
                raised |-> add_charm_project(
                              registry, setdefault(project, project_defaults),
                              FALSE).args]
    /\ UNCHANGED <<remote, cmd, idx, calls, current, output, gin, gout>>

\* One call of GroupConfig.add_charm_project by another caller than
\* load_files, which may ask for a merge.  An exception leaves main().
AddCharmProject(project_config, merge_flag) ==
    /\ phase = "load"
    /\ last.n < MaxAdds
    /\ LET added == add_charm_project(registry, project_config, merge_flag)
       IN  /\ registry' = added.registry
           /\ status' = added.err
           /\ phase' = IF added.err = "ok" THEN "load" ELSE "done"
    /\ last' = [n |-> last.n + 1, config |-> project_config, merge |-> merge_flag,
                raised |-> add_charm_project(registry, project_config,
                                             merge_flag).args]
    /\ UNCHANGED <<remote, cmd, idx, calls, current, output, gin, gout>>

\* A sync_main that does not look at the flag.
sync_unchecked(confirmed) == "ok"

\* The test sync_main makes of --i-really-mean-it
sync_confirmed(confirmed) == IF confirmed THEN "ok" ELSE "AssertionError"

\* show_main(args) is called as args.func(args, gc): a TypeError for the
\* second argument, before its NotImplementedError.
show_main == "TypeError"

\* What args.func(args, gc) raises before it handles a project
func(c) ==
    CASE c.name = "sync" -> sync_confirmed(c.confirmed)
      [] c.name = "show" -> show_main
      [] OTHER -> "ok"

\* args.func(args, gc): the command starts; sync_main raises if not confirmed,
\* show_main raises, and a command over no project is over at once.
Start(c) ==
    /\ phase = "load"
    /\ cmd' = c
    /\ idx' = 1
    /\ LET err == func(c)
       IN  /\ status' = err
           /\ phase' = IF err = "ok" /\ projects(registry, {}) # <<>>
                       THEN "run" ELSE "done"
    /\ UNCHANGED <<registry, remote, calls, current, output, last, gin, gout>>

\* sync_main's turn for one project
sync_project(cp, git) ==
    IF git.err = "ok"
    THEN ensure_charm_recipes(cp, git.remote, git.calls, git.repo)
    ELSE git

\* The end of a turn of a command's loop: an exception leaves main(), and
\* after the last project the command is over.
Finish(done, todo) ==
    /\ remote' = done.remote
    /\ calls' = done.calls
    /\ current' = done.current
    /\ status' = done.err
    /\ output' = output \o done.printed
    /\ idx' = IF done.err = "ok" THEN idx + 1 ELSE idx
    /\ phase' = IF done.err = "ok" /\ idx < todo THEN "run" ELSE "done"
    /\ UNCHANGED <<registry, cmd, last, gin, gout>>

\* One turn of the loop of sync_main
SyncProject(fails) ==
    /\ phase = "run"
    /\ cmd.name = "sync"
    /\ Finish(sync_project(projects(registry, {})[idx],
                           ensure_git_repository(projects(registry, {})[idx],
                                                 remote, calls, fails)),
              Len(projects(registry, {})))

\* One turn of the loop of diff_main
DiffProject ==
    /\ phase = "run"
    /\ cmd.name = "diff"
    /\ Finish(print_diff(projects(registry, {})[idx], remote, calls),
              Len(projects(registry, {})))

\* The heading list_main prints before every thirtieth project
Heading(i) ==
    IF i % 30 = 0
    THEN <<[project |-> None, text |-> "----", extra |-> 0],
           [project |-> None, text |-> "Team Charmhub name LP Project Name Repository",
            extra |-> 0],
           [project |-> None, text |-> "----", extra |-> 0]>>
    ELSE <<>>

\* The line list_main prints for a project: formatting a team that is None,
\* or slicing a charmhub name or a launchpad project that is None, is a
\* TypeError, after the heading is printed.
list_project(cp, rem, cs, i) ==
    IF cp.team = None \/ cp.charmhub_name = None \/ cp.launchpad_project = None
    THEN Outcome(rem, cs, "TypeError", 0, NoResult, Heading(i))
    ELSE Outcome(rem, cs, "ok", 0, NoResult,
                 Heading(i) \o <<[project |-> cp.name, text |-> "listed",
                                  extra |-> 0]>>)

\* One turn of the loop of list_main
ListProject ==
    /\ phase = "run"
    /\ cmd.name = "list"
    /\ Finish(list_project(projects(registry, {})[idx], remote, calls, idx - 1),
              Len(projects(registry, {})))

Next ==
    \/ \E project_defaults \in Defaults, project \in ProjectConfigs :
          LoadProject(project_defaults, project)
    \/ \E project_config \in ProjectConfigs :
          AddCharmProject(project_config, TRUE)
    \/ \E c \in Commands : Start(c)
    \/ \E fails \in BOOLEAN : SyncProject(fails)
    \/ DiffProject
    \/ ListProject

Spec == Init /\ [][Next]_vars

-----------------------------------------------------------------------------
(* _group_channels on its own *)

RECURSIVE SeqsUpTo(_, _)
SeqsUpTo(S, n) ==
    IF n = 0 THEN {<<>>}
    ELSE LET shorter == SeqsUpTo(S, n - 1)
         IN  shorter \cup {Append(s, x) : s \in shorter, x \in S}

InitGroup ==
    /\ registry = <<>>
    /\ remote = Launchpad({T}, Healthy, <<>>, <<>>)
    /\ phase = "group"
    /\ cmd = NoCmd
    /\ idx = 1
    /\ status = "ok"
    /\ calls = <<>>
    /\ current = NoResult
    /\ output = <<>>
    /\ last = [n |-> 0]
    /\ gin \in SeqsUpTo(Channels, MaxChannels)
    /\ gout = <<>>

GroupChannels ==
    /\ phase = "group"
    /\ gout' = _group_channels(gin)
    /\ phase' = "grouped"
    /\ UNCHANGED <<registry, remote, cmd, idx, status, calls, current, output,
                   last, gin>>

NextGroup == GroupChannels

SpecGroup == InitGroup /\ [][NextGroup]_vars

-----------------------------------------------------------------------------
(* The readers of the group files: load_files of main.py over whole files, *)
(* and find_config_for, get_charms and parse_lp_builder_config_file of     *)
(* lib/lp_builder.py.  A raw configuration is the sequence of the files    *)
(* read, each with the name of its section and its document.               *)

\* What a reader hands back: "ok" and its value, or the exception raised and
\* the key or text it was raised with.
Returned(value) == [err |-> "ok", args |-> <<>>, value |-> value]
Raised(err, args) == [err |-> err, args |-> args, value |-> <<>>]

\* load_files: the loop over the projects of one file
RECURSIVE LoadProjects(_, _, _)
LoadProjects(reg, project_defaults, todo) ==
    IF todo = <<>> THEN Returned(reg)
    ELSE LET added == add_charm_project(
                          reg, setdefault(Head(todo), project_defaults), FALSE)
         IN  IF added.err # "ok" THEN Raised(added.err, added.args)
             ELSE LoadProjects(added.registry, project_defaults, Tail(todo))

\* load_files: the loop over the files
RECURSIVE load_files(_, _)
load_files(reg, files) ==
    IF files = <<>> THEN Returned(reg)
    ELSE LET loaded == LoadProjects(reg,
                                    Get(Head(files).config, "defaults", NoDefaults),
                                    Get(Head(files).config, "projects", <<>>))
         IN  IF loaded.err # "ok" THEN loaded
             ELSE load_files(loaded.value, Tail(files))

\* find_config_for: project_config[key] = section_config['defaults'][key] if
\* the project has no such key; a KeyError is logged and passed over.
WithDefault(project_config, section_config, key) ==
    IF key \in DOMAIN project_config THEN project_config
    ELSE IF "defaults" \in DOMAIN section_config
            /\ key \in DOMAIN section_config.defaults
    THEN Update(project_config, [k \in {key} |-> section_config.defaults[key]])
    ELSE project_config

\* find_config_for: the config returned for the project found
FoundConfig(section, section_config, project) ==
    Update(WithDefault(WithDefault(project, section_config, "branches"),
                       section_config, "team"),
           [k \in {"section"} |-> section])

\* find_config_for: the loop over the projects of one section; "next" when
\* the charm is not among them.
RECURSIVE FindInProjects(_, _, _, _)
FindInProjects(section, section_config, todo, charmhub) ==
    IF todo = <<>> THEN Raised("next", <<>>)
    ELSE IF "charmhub" \notin DOMAIN Head(todo)
    THEN Raised("KeyError", <<"charmhub">>)
    ELSE IF Head(todo).charmhub = charmhub
    THEN Returned(<<FoundConfig(section, section_config, Head(todo))>>)
    ELSE FindInProjects(section, section_config, Tail(todo), charmhub)

\* find_config_for: the loop over the sections; section_config['projects']
\* of a document without that key is a KeyError.
RECURSIVE FindInSections(_, _)
FindInSections(todo, charmhub) ==
    IF todo = <<>> THEN Raised("KeyError", <<"Couldn't find">>)
    ELSE IF "projects" \notin DOMAIN Head(todo).config
    THEN Raised("KeyError", <<"projects">>)
    ELSE LET found == FindInProjects(Head(todo).section, Head(todo).config,
                                     Head(todo).config.projects, charmhub)
         IN  IF found.err = "next" THEN FindInSections(Tail(todo), charmhub)
             ELSE found

\* lib/lp_builder.py find_config_for
find_config_for(raw_config, charmhub) == FindInSections(raw_config, charmhub)

\* get_charms: charms.append(Charm(project['charmhub'])) for the projects of
\* one section; Charm.__init__ calls find_config_for.
RECURSIVE CharmsOf(_, _, _)
CharmsOf(raw_config, todo, charms) ==
    IF todo = <<>> THEN Returned(charms)
    ELSE IF "charmhub" \notin DOMAIN Head(todo)
    THEN Raised("KeyError", <<"charmhub">>)
    ELSE LET found == find_config_for(raw_config, Head(todo).charmhub)
         IN  IF found.err # "ok" THEN found
             ELSE CharmsOf(raw_config, Tail(todo),
                           Append(charms, [charmhub |-> Head(todo).charmhub,
                                           config |-> found.value[1]]))

All == <<":all:">>

\* get_charms: the loop over the sections
RECURSIVE CharmsOfSections(_, _, _, _)
CharmsOfSections(raw_config, todo, section, charms) ==
    IF todo = <<>> THEN Returned(charms)
    ELSE IF section # All /\ Head(todo).section # section
    THEN CharmsOfSections(raw_config, Tail(todo), section, charms)
    ELSE IF "projects" \notin DOMAIN Head(todo).config
    THEN Raised("KeyError", <<"projects">>)
    ELSE LET got == CharmsOf(raw_config, Head(todo).config.projects, charms)
         IN  IF got.err # "ok" THEN got
             ELSE CharmsOfSections(raw_config, Tail(todo), section, got.value)

\* lib/lp_builder.py get_charms
get_charms(raw_config, section) ==
    CharmsOfSections(raw_config, raw_config, section, <<>>)

\* {k: v['channels'] for k, v in branches.items()}: None['channels'] is a
\* TypeError, a branch without channels a KeyError.
RECURSIVE ChannelsOf(_, _)
ChannelsOf(branches_spec, done) ==
    IF branches_spec = <<>> THEN Returned(done)
    ELSE IF ~IsDict(Head(branches_spec)[2]) THEN Raised("TypeError", <<>>)
    ELSE IF "channels" \notin DOMAIN Head(branches_spec)[2]
    THEN Raised("KeyError", <<"channels">>)
    ELSE ChannelsOf(Tail(branches_spec),
                    Append(done, <<Head(branches_spec)[1],
                                   Head(branches_spec)[2].channels>>))

\* parse_lp_builder_config_file: default_branches
DefaultBranches(raw_config) ==
    IF "defaults" \in DOMAIN raw_config /\ "branches" \in DOMAIN raw_config.defaults
    THEN LET got == ChannelsOf(raw_config.defaults.branches, <<>>)
         IN  IF got.err = "KeyError" THEN Returned(<<>>) ELSE got
    ELSE Returned(<<>>)

\* parse_lp_builder_config_file: the branches of one project
BranchesOf(project, default_branches) ==
    IF "branches" \notin DOMAIN project THEN Returned(default_branches)
    ELSE LET got == ChannelsOf(project.branches, <<>>)
         IN  IF got.err = "KeyError" THEN Returned(default_branches) ELSE got

\* lp_config[project['charmhub']] = branches, on a dict kept as a sequence
PutCharm(lp_config, charmhub, branches) ==
    IF \E i \in 1..Len(lp_config) : lp_config[i][1] = charmhub
    THEN [i \in 1..Len(lp_config) |->
            IF lp_config[i][1] = charmhub THEN <<charmhub, branches>>
            ELSE lp_config[i]]
    ELSE Append(lp_config, <<charmhub, branches>>)

\* parse_lp_builder_config_file: the loop over the projects; a KeyError ends
\* it with a warning and what was read so far.
RECURSIVE ParseProjects(_, _, _)
ParseProjects(todo, default_branches, lp_config) ==
    IF todo = <<>> THEN Returned(lp_config)
    ELSE LET branches == BranchesOf(Head(todo), default_branches)
         IN  IF branches.err # "ok" THEN branches
             ELSE IF "charmhub" \notin DOMAIN Head(todo) THEN Returned(lp_config)
             ELSE ParseProjects(Tail(todo), default_branches,
                                PutCharm(lp_config, Head(todo).charmhub,
                                         branches.value))

\* lib/lp_builder.py parse_lp_builder_config_file, on the document read
parse_lp_builder_config_file(raw_config) ==
    LET default_branches == DefaultBranches(raw_config)
    IN  IF default_branches.err # "ok" THEN default_branches
        ELSE IF "projects" \notin DOMAIN raw_config THEN Returned(<<>>)
        ELSE ParseProjects(raw_config.projects, default_branches.value, <<>>)

\* The files the readers are given
MaxFiles == 2

Bare == [name |-> A, charmhub |-> <<"c">>, launchpad |-> P]

File(section, config) == [section |-> section, config |-> config]

Files ==
    { File(<<"s1">>, [defaults |-> [team |-> T,
                                     branches |-> << <<M, [channels |-> <<XE>>]>> >>]]),
      File(<<"s2">>, [defaults |-> [team |-> T], projects |-> <<Bare>>]),
      File(<<"s3">>, [projects |->
                        <<Full(B, Q, <<"b">>, << <<M, [channels |-> <<YE>>]>> >>)>>]),
      File(<<"s4">>, [defaults |-> [branches |-> << <<SX, [channels |-> <<XE>>]>> >>],
                      projects |->
                        <<Bare, Full(B, Q, <<"b">>, << <<M, [upload |-> FALSE]>> >>)>>]),
      File(<<"s5">>, NoDefaults) }

\* The lists of files of distinct sections
FileLists ==
    {files \in SeqsUpTo(Files, MaxFiles) :
        \A i, j \in 1..Len(files) : files[i].section = files[j].section => i = j}

Charmhubs == {<<"c">>, <<"b">>, <<"z">>}

Sections == {All, <<"s1">>, <<"s2">>, <<"s3">>, <<"s4">>, <<"s5">>}

InitConfig ==
    /\ registry = <<>>
    /\ remote = Launchpad({T}, Healthy, <<>>, <<>>)
    /\ phase = "config"
    /\ cmd = NoCmd
    /\ idx = 1
    /\ status = "ok"
    /\ calls = <<>>
    /\ current = NoResult
    /\ output = <<>>
    /\ last = [n |-> 0]
    /\ gin \in FileLists
    /\ gout = <<>>

\* A reader has read the files.
Read(reader, arg, result) ==
    /\ phase = "config"
    /\ phase' = "read"
    /\ status' = result.err
    /\ gout' = [reader |-> reader, arg |-> arg, result |-> result]
    /\ UNCHANGED <<remote, cmd, idx, calls, current, output, last, gin>>

\* gc.load_files(files)
LoadFiles ==
    /\ Read("load_files", <<>>, load_files(registry, gin))
    /\ registry' = IF load_files(registry, gin).err = "ok"
                   THEN load_files(registry, gin).value ELSE registry

\* find_config_for(charmhub)
FindConfigFor(charmhub) ==
    /\ Read("find_config_for", charmhub, find_config_for(gin, charmhub))
    /\ UNCHANGED registry

\* get_charms(section)
GetCharms(section) ==
    /\ Read("get_charms", section, get_charms(gin, section))
    /\ UNCHANGED registry

\* parse_lp_builder_config_file(config_file), for the file at position i
ParseFile(i) ==
    /\ i \in 1..Len(gin)
    /\ Read("parse_lp_builder_config_file", gin[i].section,
            parse_lp_builder_config_file(gin[i].config))
    /\ UNCHANGED registry

NextConfig ==
    \/ LoadFiles
    \/ \E charmhub \in Charmhubs : FindConfigFor(charmhub)
    \/ \E section \in Sections : GetCharms(section)
    \/ \E i \in 1..MaxFiles : ParseFile(i)

SpecConfig == InitConfig /\ [][NextConfig]_vars

-----------------------------------------------------------------------------
(* CharmProject.show_lauchpad_config, called on a project on its own:      *)
(* show_main does not reach it.                                            *)

\* A line show_lauchpad_config prints
ShowLine(cp, text) == [project |-> cp.name, text |-> text, extra |-> 0]

\* The line of one recipe: its name, the branch of its git_ref and its
\* store channels.
RecipeLine(cp, detail) ==
    [project |-> cp.name, text |-> "recipe", extra |-> 0,
     name |-> detail.name,
     branch |-> SubSeq(detail.current_recipe[1].git_ref, Len(RefPrefix) + 1,
                       Len(detail.current_recipe[1].git_ref)),
     channels |-> detail.current_recipe[1].store_channels]

\* show_lauchpad_config: the loop over info['in_config_recipes'].  Of an
\* entry that does not exist current_recipe is None, and None.git_ref is an
\* AttributeError.
RECURSIVE ShowRecipes(_, _, _)
ShowRecipes(cp, todo, printed) ==
    IF todo = <<>> THEN [err |-> "ok", printed |-> printed]
    ELSE IF Head(todo).current_recipe = <<>>
    THEN [err |-> "AttributeError", printed |-> printed]
    ELSE ShowRecipes(cp, Tail(todo), Append(printed, RecipeLine(cp, Head(todo))))

\* show_lauchpad_config from the result of _calc_recipes_for_repo on
ShowInfo(cp, rem, cs, repo, info, printed) ==
    IF info.in_config_recipes = <<>>
    THEN Outcome(rem, cs, "ok", repo, info, printed)
    ELSE LET shown == ShowRecipes(cp, info.in_config_recipes,
                          Append(printed, ShowLine(cp, "Recipes configured")))
         IN  Outcome(rem, cs, shown.err, repo, info, shown.printed)

\* show_lauchpad_config from self.lp_repo on; without a repository
\* self.lp_repo.branches is an AttributeError, as in print_diff.
ShowRepo(cp, rem, cs, repo, printed) ==
    IF repo = 0
    THEN Outcome(rem,
                 cs \o <<Call("get_charm_recipes", cp.launchpad_project),
                         Call("get_git_repository", cp.launchpad_project)>>,
                 "AttributeError", 0, NoResult,
                 Append(printed, ShowLine(cp, "repo")))
    ELSE ShowInfo(cp, rem, Reading(cp, cs), repo,
                  _calc_recipes_for_repo(cp, rem, repo),
                  Append(printed, ShowLine(cp, "repo")))

\* CharmProject.show_lauchpad_config
show_lauchpad_config(cp, rem, cs) ==
    IF cp.launchpad_project \notin DOMAIN rem.projects
    THEN Printing(cp,
             Outcome(rem, Resolving(cp, cs, 1), "ok", 0, NoResult,
                     <<ShowLine(cp, "Project doesn't exist!!")>>))
    ELSE IF cp.team \notin rem.people
    THEN Outcome(rem, Resolving(cp, cs, 2), "KeyError", 0, NoResult,
                 <<ShowLine(cp, "name"), ShowLine(cp, "launchpad project")>>)
    ELSE ShowRepo(cp, rem, Resolving(cp, cs, 3),
                  get_git_repository(rem, cp.team, cp.launchpad_project),
                  <<ShowLine(cp, "name"), ShowLine(cp, "launchpad project")>>)

\* The projects show_lauchpad_config is called on
ShownProjects ==
    {NewCharmProject(config).cp :
        config \in {c \in ProjectConfigs : NewCharmProject(c).err = "ok"}}

InitShow ==
    /\ registry \in {<<cp>> : cp \in ShownProjects}
    /\ remote \in Remotes
    /\ phase = "show"
    /\ cmd = NoCmd
    /\ idx = 1
    /\ status = "ok"
    /\ calls = <<>>
    /\ current = NoResult
    /\ output = <<>>
    /\ last = [n |-> 0]
    /\ gin = <<>>
    /\ gout = <<>>

\* A call of show_lauchpad_config on the project
ShowLaunchpadConfig ==
    /\ phase = "show"
    /\ LET done == show_lauchpad_config(registry[1], remote, calls)
       IN  /\ remote' = done.remote
           /\ calls' = done.calls
           /\ current' = done.current
           /\ status' = done.err
           /\ output' = output \o done.printed
    /\ phase' = "shown"
    /\ UNCHANGED <<registry, cmd, idx, last, gin, gout>>

NextShow == ShowLaunchpadConfig

SpecShow == InitShow /\ [][NextShow]_vars

-----------------------------------------------------------------------------
(* The claims *)

\* The project the last result is of, and the branches of its repository.
CurrentProject == registry[Position(registry, current.project)]

CurrentBranches ==
    remote.repos[CurrentProject.launchpad_project]
          [get_git_repository(remote, CurrentProject.team,
                              CurrentProject.launchpad_project)].branches

Entries == current.in_config_recipes

ConfirmedSync == cmd.name = "sync" /\ cmd.confirmed

CalledOn(op, on) == \E i \in 1..Len(calls) : calls[i] = Call(op, on)

NeedsWork(entry) == ~entry.exists \/ entry.changed

\* C1: a sync without the confirmation flag ends with the not-confirmed error
\* before any project is handled, and has made no call on Launchpad, so no
\* mutating one.
C1_UnconfirmedSyncDoesNothing ==
    (cmd.name = "sync" /\ ~cmd.confirmed) =>
        /\ status = "AssertionError"
        /\ phase = "done"
        /\ idx = 1
        /\ calls = <<>>
        /\ Mutating(calls) = {}
        /\ ~current.valid

\* An unconfirmed sync over two projects, one of which has no repository on
\* Launchpad, so that a sync would import one.
C1_Witness ==
    /\ cmd.name = "sync" /\ ~cmd.confirmed /\ phase = "done"
    /\ Len(registry) = 2
    /\ remote.repos[P] = <<>>
    /\ \E i \in 1..2 : registry[i].launchpad_project = P

\* C2: in a confirmed sync of a project, every entry with exists = false has a
\* create_charm_recipe call for its name and every entry with exists = true
\* and changed = true a save of that recipe, whatever the mix of entries.
C2_CreatesAndUpdates ==
    (ConfirmedSync /\ current.valid) =>
        \A i \in 1..Len(Entries) :
            /\ ~Entries[i].exists => CalledOn("create_charm_recipe", Entries[i].name)
            /\ (Entries[i].exists /\ Entries[i].changed)
                   => CalledOn("recipe.lp_save", Entries[i].name)

\* The recipe of the current project that Launchpad holds under a name.
RemoteRecipe(name) ==
    CHOOSE r \in Range(remote.recipes) :
        /\ r.name = name
        /\ r.owner = CurrentProject.team
        /\ r.project = CurrentProject.launchpad_project

\* C3: after a confirmed sync of a project, a recipe that existed holds the
\* desired value in each of its changed fields and its former value in the
\* others, and an unchanged one was neither created nor saved.
C3_UpdateWritesChangedFields ==
    (ConfirmedSync /\ current.valid) =>
        \A i \in 1..Len(Entries) : Entries[i].exists =>
            /\ \A k \in Range(RecipeParts) :
                  RemoteRecipe(Entries[i].name)[k] =
                      IF k \in DOMAIN Entries[i].updated_parts
                      THEN Entries[i].updated_parts[k]
                      ELSE Entries[i].current_recipe[1][k]
            /\ ~Entries[i].changed =>
                  /\ ~CalledOn("create_charm_recipe", Entries[i].name)
                  /\ ~CalledOn("recipe.lp_save", Entries[i].name)

\* C4: a confirmed sync that found recipes needing work runs to its end
\* without an exception, with the create or update of every such recipe
\* attempted.
C4_RunCompletesAllAttempted ==
    (ConfirmedSync /\ phase = "done" /\ current.valid
        /\ \E i \in 1..Len(Entries) : NeedsWork(Entries[i])) =>
        /\ status = "ok"
        /\ \A i \in 1..Len(Entries) : NeedsWork(Entries[i]) =>
              \/ CalledOn("create_charm_recipe", Entries[i].name)
              \/ CalledOn("recipe.lp_save", Entries[i].name)

\* Whether Launchpad has the project, the team and a repository of cp's.
Resolvable(cp, rem) ==
    /\ cp.launchpad_project \in DOMAIN rem.projects
    /\ cp.team \in rem.people
    /\ get_git_repository(rem, cp.team, cp.launchpad_project) # 0

Reconciled(cp, rem) ==
    _calc_recipes_for_repo(cp, rem,
        get_git_repository(rem, cp.team, cp.launchpad_project))

\* What a step leaves of the orphans and the missing branches of a result.
Untouched(cp, info) ==
    /\ \A i \in 1..Len(info.non_config_recipes) :
          /\ info.non_config_recipes[i] \in Range(remote'.recipes)
          /\ Cardinality({j \in 1..Len(remote'.recipes) :
                             /\ remote'.recipes[j].name = info.non_config_recipes[i].name
                             /\ remote'.recipes[j].owner = cp.team
                             /\ remote'.recipes[j].project = cp.launchpad_project}) = 1
          /\ \A j \in (Len(calls) + 1)..Len(calls') :
                calls'[j].on # info.non_config_recipes[i].name
    /\ \A i \in 1..Len(info.missing_branches_in_repo) :
          info.missing_branches_in_repo[i]
              \notin Range(remote'.repos[cp.launchpad_project]
                               [get_git_repository(remote, cp.team,
                                                   cp.launchpad_project)].branches)

\* C5: no step of any command deletes, changes or creates again a recipe that
\* matches no declared branch and track of a registered project, and none
\* creates a declared branch the repository lacks.
C5_OrphansUntouched ==
    [][\A i \in 1..Len(registry) :
          Resolvable(registry[i], remote)
              => Untouched(registry[i], Reconciled(registry[i], remote))]_vars

\* A confirmed sync has reconciled a project that has an orphan recipe and a
\* missing branch, and has written to Launchpad.
C5_Witness ==
    /\ ConfirmedSync /\ current.valid
    /\ current.non_config_recipes # <<>>
    /\ current.missing_branches_in_repo # <<>>
    /\ Mutating(calls) # {}

\* C6: once a confirmed sync of a project has ended without an error, a
\* second reconcile of the project has no entry to create and none to update.
C6_SecondReconcileClean ==
    (ConfirmedSync /\ current.valid /\ status = "ok") =>
        \A i \in 1..Len(Reconciled(CurrentProject, remote).in_config_recipes) :
            ~NeedsWork(Reconciled(CurrentProject, remote).in_config_recipes[i])

\* C7: missing_branches_in_repo is, in increasing order and without repeats,
\* the declared branch refs that the repository does not list, and no entry
\* is built from such a branch.
C7_MissingBranches ==
    current.valid =>
        /\ Range(current.missing_branches_in_repo)
               = DOMAIN CurrentProject.branches \ Range(CurrentBranches)
        /\ \A i, j \in 1..Len(current.missing_branches_in_repo) :
              i < j => StrLess(current.missing_branches_in_repo[i],
                               current.missing_branches_in_repo[j])
        /\ \A i \in 1..Len(Entries) :
              Entries[i].build_from.lp_branch
                  \notin Range(current.missing_branches_in_repo)

\* A reconcile with two missing branches and a recipe entry.
C7_Witness ==
    /\ current.valid
    /\ Len(current.missing_branches_in_repo) = 2
    /\ Entries # <<>>

\* t is the part of the channel before its first '/', or all of it.
IsTrackOf(t, channel) ==
    /\ Len(t) <= Len(channel)
    /\ \A i \in 1..Len(t) : t[i] = channel[i] /\ t[i] # "/"
    /\ Len(t) < Len(channel) => channel[Len(t) + 1] = "/"

FirstOf(t, channels) ==
    First({i \in 1..Len(channels) : IsTrackOf(t, channels[i])})

\* C8: _group_channels puts every channel in the one group of its track,
\* the groups in the order their tracks first occur and the channels of a
\* group in the order given; no channels give no groups.
C8_GroupPartitions ==
    phase = "grouped" =>
        /\ \A g \in 1..Len(gout) :
              /\ gout[g][2] # <<>>
              /\ gout[g][2] = SelectSeq(gin, LAMBDA ch : IsTrackOf(gout[g][1], ch))
        /\ \A i \in 1..Len(gin) :
              Cardinality({g \in 1..Len(gout) : IsTrackOf(gout[g][1], gin[i])}) = 1
        /\ \A g, h \in 1..Len(gout) :
              g < h => FirstOf(gout[g][1], gin) < FirstOf(gout[h][1], gin)
        /\ gin = <<>> => gout = <<>>

\* Three channels of two tracks, the first track's apart, one without a risk.
C8_Witness ==
    /\ phase = "grouped"
    /\ Len(gin) = 3 /\ Len(gout) = 2
    /\ gin[2] = YE /\ gin[3] = X
    /\ gout[1] = <<X, <<gin[1], X>>>>

\* The tracks of a declared branch, as the claim has them, and the channels
\* of a track.
ClaimTracks(branch_info) ==
    IF Get(branch_info, "upload", TRUE) = TRUE
          /\ Get(branch_info, "channels", <<>>) # <<>>
    THEN {t \in {SubSeq(c, 1, n) : c \in Range(branch_info.channels), n \in 0..3} :
             \E c \in Range(branch_info.channels) : IsTrackOf(t, c)}
    ELSE {Latest}

ClaimChannels(branch_info, t) ==
    IF Get(branch_info, "upload", TRUE) = TRUE
          /\ Get(branch_info, "channels", <<>>) # <<>>
    THEN SelectSeq(branch_info.channels, LAMBDA c : IsTrackOf(t, c))
    ELSE <<>>

ClaimName(cp, b, t) ==
    format(cp.branches[b].recipe_name, cp.launchpad_project, BranchName(b), t)

Present(cp) == DOMAIN cp.branches \cap Range(CurrentBranches)

EntriesOf(b) == {i \in 1..Len(Entries) : Entries[i].build_from.lp_branch = b}

\* C9 as claimed: a declared branch the repository has gives one recipe for
\* each distinct track of its channels, with that track's channels, if upload
\* is true and there are channels, and else the one recipe of track "latest"
\* with no channels.
C9_OneRecipePerTrack ==
    current.valid =>
        \A b \in Present(CurrentProject) :
            /\ Cardinality(EntriesOf(b))
                   = Cardinality(ClaimTracks(CurrentProject.branches[b]))
            /\ \A t \in ClaimTracks(CurrentProject.branches[b]) :
                  \E i \in EntriesOf(b) :
                      /\ Entries[i].name = ClaimName(CurrentProject, b, t)
                      /\ Entries[i].build_from.channels
                             = ClaimChannels(CurrentProject.branches[b], t)

\* No other branch and track of the project gives the name of b and t.
NameIsOwn(cp, b, t) ==
    \A b2 \in Present(cp) : \A t2 \in ClaimTracks(cp.branches[b2]) :
        ClaimName(cp, b2, t2) = ClaimName(cp, b, t) => (b2 = b /\ t2 = t)

\* C9 as amended: each track of such a branch has an entry under the recipe
\* name formatted for it; the entry is of that branch and holds that track's
\* channels when no other branch and track of the project formats to the same
\* name; and every entry is of some track of its branch.
C9_RecipePerTrackUnlessNameShared ==
    current.valid =>
        /\ \A b \in Present(CurrentProject) :
              \A t \in ClaimTracks(CurrentProject.branches[b]) :
                  \E i \in 1..Len(Entries) :
                      /\ Entries[i].name = ClaimName(CurrentProject, b, t)
                      /\ NameIsOwn(CurrentProject, b, t) =>
                            /\ Entries[i].build_from.lp_branch = b
                            /\ Entries[i].build_from.channels
                                   = ClaimChannels(CurrentProject.branches[b], t)
        /\ \A i \in 1..Len(Entries) :
              /\ Entries[i].build_from.lp_branch \in Present(CurrentProject)
              /\ \E t \in ClaimTracks(CurrentProject.branches[
                                          Entries[i].build_from.lp_branch]) :
                    /\ Entries[i].name
                          = ClaimName(CurrentProject, Entries[i].build_from.lp_branch, t)
                    /\ Entries[i].build_from.channels
                          = ClaimChannels(CurrentProject.branches[
                                              Entries[i].build_from.lp_branch], t)
        /\ \A i, j \in 1..Len(Entries) : Entries[i].name = Entries[j].name => i = j

\* A reconcile of a project with a branch whose upload is false though it has
\* channels of two tracks.
C9_Witness ==
    /\ current.valid
    /\ \E b \in Present(CurrentProject) :
          /\ CurrentProject.branches[b].upload = FALSE
          /\ Get(CurrentProject.branches[b], "channels", <<>>) = <<XE, YE>>
          /\ \E i \in EntriesOf(b) :
                /\ Entries[i].name = ClaimName(CurrentProject, b, Latest)
                /\ Entries[i].build_from.channels = <<>>

\* The step is a call of add_charm_project for a name already registered.
AddsRegistered ==
    /\ phase = "load"
    /\ last'.n = last.n + 1
    /\ Get(last'.config, "name", None) \in Names(registry)

Registered(reg, config) == reg[Position(reg, Get(config, "name", None))]

\* C10: add_charm_project for a registered name, without merge, raises the
\* duplicate error and leaves the registry as it was; with merge, it leaves
\* the number and the names of the projects, and every other project, as they
\* were and overwrites the project's fields that the new declaration has,
\* keeping its branches.
C10_DuplicateOrMerge ==
    [][AddsRegistered =>
          IF ~last'.merge
          THEN /\ status' = "ValueError:exists"
               /\ phase' = "done"
               /\ registry' = registry
          ELSE /\ Len(registry') = Len(registry)
               /\ \A i \in 1..Len(registry) :
                     /\ registry'[i].name = registry[i].name
                     /\ registry[i].name # Get(last'.config, "name", None)
                           => registry'[i] = registry[i]
               /\ Registered(registry', last'.config).team
                     = Get(last'.config, "team",
                           Registered(registry, last'.config).team)
               /\ Registered(registry', last'.config).charmhub_name
                     = Get(last'.config, "charmhub",
                           Registered(registry, last'.config).charmhub_name)
               /\ DOMAIN Registered(registry, last'.config).branches
                     \subseteq DOMAIN Registered(registry', last'.config).branches
      ]_vars

\* A second declaration was merged into a project, next to another project.
C10_Witness ==
    /\ last.n = 2 /\ last.merge /\ status = "ok"
    /\ Len(registry) = 1
    /\ registry[1].charmhub_name = <<"c2">>
    /\ DOMAIN registry[1].branches # {}

\* The step merges a declaration into a registered project.
Merges == AddsRegistered /\ last'.merge

Scalars ==
    << <<"name", "name">>, <<"team", "team">>, <<"charmhub", "charmhub_name">>,
       <<"launchpad", "launchpad_project">>, <<"repository", "repository">> >>

\* The branch refs a declaration names, and what it gives for one.
GivenRefs(config) ==
    {RefPrefix \o Get(config, "branches", <<>>)[i][1] :
        i \in 1..Len(Get(config, "branches", <<>>))}

GivenInfo(config, ref) ==
    config.branches[CHOOSE i \in 1..Len(config.branches) :
                        RefPrefix \o config.branches[i][1] = ref][2]

\* What a merge without error makes of the branches old into the branches new.
BranchesMerged(old, new, config) ==
    /\ DOMAIN new = DOMAIN old \cup GivenRefs(config)
    /\ \A ref \in DOMAIN old \ GivenRefs(config) : new[ref] = old[ref]
    /\ \A ref \in GivenRefs(config) :
          /\ \A k \in DOMAIN GivenInfo(config, ref) :
                /\ k \in DOMAIN new[ref]
                /\ new[ref][k] = GivenInfo(config, ref)[k]
          /\ ref \in DOMAIN old =>
                \A k \in DOMAIN old[ref] \ DOMAIN GivenInfo(config, ref) :
                    /\ k \in DOMAIN new[ref]
                    /\ new[ref][k] = old[ref][k]

\* C11: a merge overwrites a scalar field of the project exactly when the
\* new declaration has its key, removes no branch, and, when it raises
\* nothing, adds the branches that are new, gives a branch named again the
\* fields of the new declaration while the branch keeps its other fields,
\* and leaves the branches not named as they were.
C11_MergeRule ==
    [][Merges =>
          /\ \A i \in 1..Len(Scalars) :
                Registered(registry', last'.config)[Scalars[i][2]]
                    = IF Scalars[i][1] \in DOMAIN last'.config
                      THEN last'.config[Scalars[i][1]]
                      ELSE Registered(registry, last'.config)[Scalars[i][2]]
          /\ DOMAIN Registered(registry, last'.config).branches
                \subseteq DOMAIN Registered(registry', last'.config).branches
          /\ status' = "ok" =>
                BranchesMerged(Registered(registry, last'.config).branches,
                               Registered(registry', last'.config).branches,
                               last'.config)
      ]_vars

\* A merge gave upload to a branch that keeps the channels it had.
C11_Witness ==
    /\ last.n = 2 /\ last.merge /\ status = "ok"
    /\ DOMAIN last.config = {"name", "branches"}
    /\ DOMAIN registry[1].branches = {RefPrefix \o M}
    /\ "channels" \in DOMAIN registry[1].branches[RefPrefix \o M]
    /\ registry[1].branches[RefPrefix \o M].upload = FALSE
    /\ registry[1].branches[RefPrefix \o M].channels = <<XE, YE, XS>>

\* The step loads a project of a group file, and registers it.
Loads ==
    /\ phase = "load"
    /\ last'.n = last.n + 1
    /\ "defaults" \in DOMAIN last'
    /\ status' = "ok"

Loaded == registry'[Len(registry')]

\* The info a group file gives for a branch, in the project or the defaults.
InfoIn(d, ref) == GivenInfo(d, ref)

\* C12 as claimed: the loaded project has every key of the defaults that its
\* entry lacks, every branch of the defaults that it does not declare, and
\* for a branch of both the default's fields under the project's.
C12_DefaultsDeepMerged ==
    [][Loads =>
          /\ "team" \notin DOMAIN last'.project
                => Loaded.team = Get(last'.defaults, "team", None)
          /\ \A ref \in GivenRefs(last'.defaults) :
                /\ ref \in DOMAIN Loaded.branches
                /\ \A k \in DOMAIN InfoIn(last'.defaults, ref) :
                      /\ k \in DOMAIN Loaded.branches[ref]
                      /\ Loaded.branches[ref][k] =
                            IF ref \in GivenRefs(last'.project)
                                  /\ k \in DOMAIN InfoIn(last'.project, ref)
                            THEN InfoIn(last'.project, ref)[k]
                            ELSE InfoIn(last'.defaults, ref)[k]
      ]_vars

\* Where the branches of a loaded project come from.
BranchSource(project, project_defaults) ==
    IF "branches" \in DOMAIN project THEN project ELSE project_defaults

\* C12 as amended: the loaded project has every key of the defaults that its
\* entry lacks and its own value for every key it has; its branches are the
\* entry's alone if the entry has the key branches, and the defaults' if not.
C12_DefaultsSetPerKey ==
    [][Loads =>
          /\ Loaded.team = IF "team" \in DOMAIN last'.project
                            THEN last'.project.team
                            ELSE Get(last'.defaults, "team", None)
          /\ Loaded.name = Get(last'.project, "name", None)
          /\ DOMAIN Loaded.branches
                = GivenRefs(BranchSource(last'.project, last'.defaults))
          /\ \A ref \in DOMAIN Loaded.branches :
                Loaded.branches[ref]
                    = Update(default_branch_info,
                             InfoIn(BranchSource(last'.project, last'.defaults), ref))
      ]_vars

\* A project that declares branch m alone was loaded from a file whose
\* defaults have branches m and s-x: it has m alone, without channels.
C12_Witness ==
    /\ last.n = 1 /\ status = "ok" /\ Len(registry) = 1
    /\ "defaults" \in DOMAIN last
    /\ GivenRefs(last.defaults) = {RefPrefix \o M, RefPrefix \o S_X}
    /\ "team" \notin DOMAIN last.project
    /\ registry[1].team = T
    /\ DOMAIN registry[1].branches = {RefPrefix \o M}
    /\ "channels" \notin DOMAIN registry[1].branches[RefPrefix \o M]

\* C13: a project entry without a name is rejected when it is loaded, and no
\* project is ever registered under no name.
C13_NamelessRejected ==
    /\ None \notin Names(registry)
    /\ (cmd = NoCmd /\ last.n > 0 /\ "name" \notin DOMAIN last.config)
           => status # "ok"

\* The branches of a declaration whose value is not a mapping.
NotDicts(config) ==
    {i \in 1..Len(Get(config, "branches", <<>>)) : ~IsDict(config.branches[i][2])}

\* The step is a call of add_charm_project with such a branch.
AddsNotDict ==
    /\ phase = "load"
    /\ last'.n = last.n + 1
    /\ NotDicts(last'.config) # {}

\* C14 as claimed: a call of add_charm_project for a declaration with a
\* branch whose value is not a mapping ends with a configuration error whose
\* message names that branch.
C14_ErrorNamesBranch ==
    [][AddsNotDict =>
          /\ status' = "ValueError:notdict"
          /\ \E i \in NotDicts(last'.config) :
                \/ last'.config.branches[i][1] \in Range(last'.raised)
                \/ RefPrefix \o last'.config.branches[i][1] \in Range(last'.raised)
      ]_vars

\* C14 as amended: such a call ends loading with a ValueError: the one for a
\* name already registered if the call is without merge and the name is
\* registered, and else the one whose message gives the type of the value
\* found and no branch; a project that was not registered is not added.
C14_NotDictRejected ==
    [][AddsNotDict =>
          /\ phase' = "done"
          /\ Len(registry') = Len(registry)
          /\ IF Get(last'.config, "name", None) \in Names(registry) /\ ~last'.merge
             THEN status' = "ValueError:exists"
             ELSE /\ status' = "ValueError:notdict"
                  /\ last'.raised = << <<"<class 'NoneType'>">> >>
      ]_vars

\* A merge of a declaration that names branch s/x and then gives no mapping
\* for branch m was rejected; the project has branch s/x from it.
C14_Witness ==
    /\ cmd = NoCmd /\ last.n = 2 /\ last.merge
    /\ status = "ValueError:notdict"
    /\ last.raised = << <<"<class 'NoneType'>">> >>
    /\ RefPrefix \o SX \in DOMAIN registry[1].branches

\* The project a command handles next.
Handled == projects(registry, {})[idx]

\* Launchpad has the project and the team of cp, and another owner of the
\* project than the team.
Mismatch(cp, rem) ==
    /\ cp.launchpad_project \in DOMAIN rem.projects
    /\ cp.team \in rem.people
    /\ rem.projects[cp.launchpad_project].owner # cp.team

\* The step raises the error of the owner and has done no more on Launchpad
\* than look up the project and the team.
StopsAtOwner ==
    /\ status' = "ValueError:owner"
    /\ phase' = "done"
    /\ remote' = remote
    /\ ~current'.valid
    /\ \A j \in (Len(calls) + 1)..Len(calls') :
          calls'[j].op \in {"get_lp_project_for", "get_lp_team_for"}

\* C15 as claimed: a turn of sync or of diff for a project whose owner on
\* Launchpad is not its team stops at the error of the owner.
C15_OwnerCheckedByAll ==
    [][(phase = "run" /\ cmd.name \in {"sync", "diff"} /\ Mismatch(Handled, remote))
          => StopsAtOwner]_vars

\* C15 as amended: a turn of sync for such a project stops at the error of
\* the owner; a turn of diff for it raises no such error.
C15_OwnerCheckedBySync ==
    [][(phase = "run" /\ Mismatch(Handled, remote)) =>
          /\ cmd.name = "sync" => StopsAtOwner
          /\ cmd.name = "diff" => status' # "ValueError:owner"
      ]_vars

\* A sync stopped at the first of two projects, whose owner is not its team,
\* having looked up the project and the team.
C15_Witness ==
    /\ cmd.name = "sync" /\ status = "ValueError:owner"
    /\ idx = 1 /\ Len(registry) = 2
    /\ Mismatch(registry[1], remote)
    /\ Len(calls) = 2

\* Launchpad has the project and the team of cp, and no repository of the
\* team for the project.
NoRepository(cp, rem) ==
    /\ cp.launchpad_project \in DOMAIN rem.projects
    /\ cp.team \in rem.people
    /\ get_git_repository(rem, cp.team, cp.launchpad_project) = 0

\* The calls a step adds.
NewCalls == {calls'[j] : j \in (Len(calls) + 1)..Len(calls')}

NewOps == {c.op : c \in NewCalls}

\* C16: a step imports a repository only for a project whose team has none,
\* so no default one, on Launchpad; and a turn of diff for a project without
\* a repository prints "No repo configured!" for it and lists neither its
\* recipes nor its branches.
C16_ImportOnlyIfNoneElseReported ==
    [][phase = "run" =>
          /\ "import_repository" \in NewOps =>
                /\ cmd.name = "sync"
                /\ NoRepository(Handled, remote)
                /\ \A i \in 1..Len(remote.repos[Handled.launchpad_project]) :
                      ~(/\ remote.repos[Handled.launchpad_project][i].owner
                              = Handled.team
                        /\ remote.repos[Handled.launchpad_project][i].target_default)
          /\ (cmd.name = "diff" /\ NoRepository(Handled, remote)) =>
                /\ Len(output') = Len(output) + 1
                /\ output'[Len(output')].text = "No repo configured!"
                /\ NewOps \cap {"get_charm_recipes", "repo.branches"} = {}
      ]_vars

\* Launchpad has no project of the name cp gives.
NotFound(cp, rem) == cp.launchpad_project \notin DOMAIN rem.projects

\* The command goes on to its next project, if it has one.
GoesOn ==
    /\ idx' = idx + 1
    /\ phase' = IF idx < Len(projects(registry, {})) THEN "run" ELSE "done"

\* C17: in a confirmed sync, a project that Launchpad does not have, or whose
\* owner there is not its team, is passed over, and the sync goes on to the
\* projects after it.
C17_SyncPassesOverFailedProject ==
    [][(phase = "run" /\ ConfirmedSync
           /\ (NotFound(Handled, remote) \/ Mismatch(Handled, remote)))
          => /\ GoesOn
             /\ remote' = remote
      ]_vars

\* C18: a turn of diff for a project that Launchpad does not have, or that
\* has no repository there, prints a line for the project and raises nothing,
\* and the diff goes on to the projects after it.
C18_DiffReportsAndGoesOn ==
    [][(phase = "run" /\ cmd.name = "diff" /\ Handled.name # None
           /\ (NotFound(Handled, remote) \/ NoRepository(Handled, remote)))
          => /\ status' = "ok"
             /\ Len(output') = Len(output) + 1
             /\ output'[Len(output')].project = Handled.name
             /\ GoesOn
      ]_vars

\* The calls that read Launchpad.
ResolvingOps == {"get_lp_project_for", "get_lp_team_for", "get_git_repository"}

ListingOps == {"get_charm_recipes", "repo.branches"}

ReadingOps == ResolvingOps \cup ListingOps \cup {"repo.lp_refresh"}

\* A position of a call a step adds.
NewPositions == (Len(calls) + 1)..Len(calls')

\* C19 as claimed: among the calls of a turn of sync, no read of Launchpad
\* comes after a write.
C19_ReadsBeforeWrites ==
    [][(phase = "run" /\ cmd.name = "sync") =>
          \A j, k \in NewPositions :
              (j < k /\ calls'[j].op \in MutatingOps)
                  => calls'[k].op \notin ReadingOps
      ]_vars

\* C19 as amended: among the calls of a turn of sync, the look-ups of the
\* project, the team and the repository come before every write; the
\* listings of the recipes and the branches come after the writes to the
\* repository and the project, and no write comes after a listing; the
\* repository is read again only right after it was made the default.
C19_ResolveWriteThenList ==
    [][(phase = "run" /\ cmd.name = "sync") =>
          /\ \A j, k \in NewPositions :
                j < k =>
                    /\ calls'[j].op \in MutatingOps
                          => calls'[k].op \notin ResolvingOps
                    /\ calls'[j].op \in ListingOps
                          => calls'[k].op \notin MutatingOps
          /\ \A k \in NewPositions :
                calls'[k].op = "repo.lp_refresh"
                    => /\ k - 1 \in NewPositions
                       /\ calls'[k - 1].op = "set_default_repository"
      ]_vars

\* A turn of sync has imported the repository, made it the default and then
\* listed the recipes and the branches.
C19_Witness ==
    /\ cmd.name = "sync"
    /\ Len(calls) >= 7
    /\ \E j \in 1..Len(calls) :
          /\ calls[j].op = "import_repository"
          /\ calls[j + 1].op = "set_default_repository"
          /\ calls[j + 2].op = "repo.lp_refresh"
          /\ \E k \in (j + 3)..Len(calls) : calls[k].op = "get_charm_recipes"

\* C20: list, diff and show never change Launchpad: a step of one of them
\* leaves the recipes, the repositories and the projects as they were and
\* makes no import_repository, set_default_repository, project.lp_save,
\* create_charm_recipe or recipe.lp_save call.
C20_ReadOnlyCommands ==
    [][cmd.name \in {"list", "diff", "show"} =>
          /\ remote' = remote
          /\ \A k \in NewPositions : calls'[k].op \notin MutatingOps
      ]_vars

\* A diff has been made of a project whose repository sync would import, and
\* of one it would make the default.
C20_Witness ==
    /\ cmd.name = "diff"
    /\ phase = "done"
    /\ \E i \in 1..Len(registry) :
          /\ \E k \in 1..Len(calls) :
                calls[k] = Call("get_git_repository", registry[i].launchpad_project)
          /\ registry[i].launchpad_project \in DOMAIN remote.projects
          /\ registry[i].team \in remote.people
          /\ LET found == get_git_repository(remote, registry[i].team,
                                              registry[i].launchpad_project)
             IN \/ found = 0
                \/ ~remote.repos[registry[i].launchpad_project][found].target_default

\* The load met a configuration error: add_charm_project raised (a branch
\* that is not a mapping, a project declared again without merge), or an
\* entry without a name was loaded.
ConfigErrorMet ==
    \/ cmd = NoCmd /\ status # "ok"
    \/ None \in Names(registry)

\* C21: a configuration error ends the run at load time, before any call on
\* Launchpad is made for any project.
C21_ConfigErrorBeforeCalls ==
    ConfigErrorMet => calls = <<>>

\* The recipe create_charm_recipe would ask for, for an entry of a result.
Created(entry) ==
    create_charm_recipe(entry.name, entry.build_from.branch_info,
                        entry.build_from.lp_branch, CurrentProject.team,
                        CurrentProject.launchpad_project,
                        entry.build_from.store_name, entry.build_from.channels)

\* The values diff_charm_recipe is given for an entry of a result.
Desired(entry) == Wanted(entry.build_from.branch_info, entry.build_from.channels)

\* C22: for a branch declared with store-upload: False, the store_upload
\* wanted of its recipe, and that of the recipe created for it, is false.
C22_StoreUploadFalseNotUploaded ==
    current.valid =>
        \A i \in 1..Len(Entries) :
            Get(Entries[i].build_from.branch_info, "store_upload", TRUE) = FALSE
                => /\ Desired(Entries[i]).store_upload = FALSE
                   /\ Created(Entries[i]).store_upload = FALSE

\* The names of the recipes of a sequence.
NamesOf(recipes) == {recipes[i].name : i \in 1..Len(recipes)}

\* The recipe names of the pairs of a declared branch the repository has and
\* one of its tracks.
ComputedNames(cp, lp_branches) ==
    UNION { { format(cp.branches[ref].recipe_name, cp.launchpad_project,
                     BranchName(ref), track[1]) :
                track \in Range(TracksOf(cp.branches[ref])) } :
            ref \in DOMAIN cp.branches \cap Range(lp_branches) }

\* The orders a sequence without repetition can be listed in.
Orders(s) ==
    { [i \in 1..Len(s) |-> s[f[i]]] :
        f \in {g \in [1..Len(s) -> 1..Len(s)] :
                  \A i, j \in 1..Len(s) : g[i] = g[j] => i = j} }

\* C23: the names of non_config_recipes are the names of the recipes read
\* that no pair of a declared branch of the repository and a track computes;
\* none is a key of in_config_recipes; and non_config_recipes is the same
\* for every order the repository lists its branches in.
C23_NonConfigRecipes ==
    current.valid =>
        /\ NamesOf(current.non_config_recipes)
              = NamesOf(current.lp_recipes)
                    \ ComputedNames(CurrentProject, CurrentBranches)
        /\ NamesOf(current.non_config_recipes) \cap NamesOf(Entries) = {}
        /\ \A listing \in Orders(CurrentBranches) :
              CalcFrom(CurrentProject, current.lp_recipes, listing).non_config_recipes
                  = current.non_config_recipes

\* A result over a repository of several branches with a recipe matched, and
\* a recipe left over.
C23_Witness ==
    /\ current.valid
    /\ Len(CurrentBranches) >= 2
    /\ \E i \in 1..Len(Entries) : Entries[i].exists
    /\ current.non_config_recipes # <<>>
    /\ Len(current.non_config_recipes) < Len(current.lp_recipes)

\* The parts of the recipe Launchpad holds for an entry that differ from the
\* values wanted.
DifferingParts(entry) ==
    {k \in Range(RecipeParts) : entry.current_recipe[1][k] # Desired(entry)[k]}

\* C24: of an entry whose recipe was found among the recipes read, the
\* changed parts are the parts among auto_build, auto_build_channels,
\* build_path, store_channels and store_upload whose value on Launchpad
\* differs from the value wanted, and changed says whether there is one; an
\* entry whose recipe was not found has exists and changed false.
C24_ChangedFields ==
    current.valid =>
        \A i \in 1..Len(Entries) :
            IF Entries[i].name \in NamesOf(current.lp_recipes)
            THEN /\ Entries[i].exists
                 /\ Entries[i].current_recipe[1].name = Entries[i].name
                 /\ DOMAIN Entries[i].updated_parts = DifferingParts(Entries[i])
                 /\ Range(Entries[i].changes) = DifferingParts(Entries[i])
                 /\ \A k \in DifferingParts(Entries[i]) :
                       Entries[i].updated_parts[k] = Desired(Entries[i])[k]
                 /\ Entries[i].changed <=> DifferingParts(Entries[i]) # {}
            ELSE /\ ~Entries[i].exists
                 /\ ~Entries[i].changed

\* The pairs of a declared branch the repository lists and one of its tracks
\* that compute a recipe name, in the order they are processed: the
\* position of the branch in the listing, then that of the track.
PairsOf(cp, lp_branches, name) ==
    { <<b, t>> \in (1..Len(lp_branches)) \X (1..MaxChannels) :
        /\ lp_branches[b] \in DOMAIN cp.branches
        /\ t <= Len(TracksOf(cp.branches[lp_branches[b]]))
        /\ format(cp.branches[lp_branches[b]].recipe_name, cp.launchpad_project,
                  BranchName(lp_branches[b]),
                  TracksOf(cp.branches[lp_branches[b]])[t][1]) = name }

\* C25: for an entry whose recipe does not exist, the recipe that
\* create_charm_recipe asks for holds the values wanted in auto_build,
\* auto_build_channels, build_path, store_channels and store_upload.
C25_CreationCarriesDesired ==
    current.valid =>
        \A i \in 1..Len(Entries) :
            ~Entries[i].exists
                => \A k \in Range(RecipeParts) :
                       Created(Entries[i])[k] = Desired(Entries[i])[k]

\* The pair processed last of a set of pairs.
LastPair(pairs) ==
    CHOOSE p \in pairs :
        \A q \in pairs : q[1] < p[1] \/ (q[1] = p[1] /\ q[2] <= p[2])

\* The names that more than one pair computes.
Colliding(cp, lp_branches) ==
    {name \in ComputedNames(cp, lp_branches) :
        Cardinality(PairsOf(cp, lp_branches, name)) > 1}

\* C26: when several pairs of a branch and a track format to one recipe
\* name, the result is computed all the same, in_config_recipes holds one
\* entry of that name, and the branch and the channels it is built from are
\* those of the pair processed last.
C26_LastPairWins ==
    current.valid =>
        \A name \in Colliding(CurrentProject, CurrentBranches) :
            /\ Cardinality({i \in 1..Len(Entries) : Entries[i].name = name}) = 1
            /\ \A i \in 1..Len(Entries) :
                  Entries[i].name = name =>
                      LET last_pair == LastPair(PairsOf(CurrentProject,
                                                        CurrentBranches, name))
                          ref == CurrentBranches[last_pair[1]]
                      IN  /\ Entries[i].build_from.lp_branch = ref
                          /\ Entries[i].build_from.channels
                                = TracksOf(CurrentProject.branches[ref])
                                      [last_pair[2]][2]
                          /\ Entries[i].build_from.branch_info
                                = CurrentProject.branches[ref]

\* A result of a project two of whose branches, each listed by the
\* repository, format to one recipe name.
C26_Witness ==
    /\ current.valid
    /\ \E name \in Colliding(CurrentProject, CurrentBranches) :
          \E p, q \in PairsOf(CurrentProject, CurrentBranches, name) : p[1] # q[1]

\* The files without the documents that have no projects key.
WithProjects(files) ==
    SelectSeq(files, LAMBDA file : "projects" \in DOMAIN file.config)

\* C27: a document without a projects key is passed over by every reader:
\* load_files, find_config_for and get_charms give what they give without
\* that document, and parse_lp_builder_config_file gives no charm and no
\* error for it.
C27_NoProjectsSkipped ==
    phase = "read" =>
        CASE gout.reader = "load_files"
               -> gout.result = load_files(<<>>, WithProjects(gin))
          [] gout.reader = "find_config_for"
               -> gout.result = find_config_for(WithProjects(gin), gout.arg)
          [] gout.reader = "get_charms"
               -> gout.result = get_charms(WithProjects(gin), gout.arg)
          [] OTHER
               -> \A i \in 1..Len(gin) :
                     (gin[i].section = gout.arg /\ WithProjects(<<gin[i]>>) = <<>>)
                         => gout.result = Returned(<<>>)

\* The names of the entries of a result whose recipe exists.
Existing == {Entries[i].name : i \in {j \in 1..Len(Entries) : Entries[j].exists}}

\* C28: in a result, an entry has exists true exactly if the recipes read
\* hold a recipe of its name; the names of the existing entries and of
\* non_config_recipes are the names of the recipes read; and no
\* create_charm_recipe call is made for a name the recipes read hold.
C28_ExistsIffInSnapshot ==
    current.valid =>
        /\ \A i \in 1..Len(Entries) :
              Entries[i].exists <=> Entries[i].name \in NamesOf(current.lp_recipes)
        /\ Existing \cup NamesOf(current.non_config_recipes)
              = NamesOf(current.lp_recipes)
        /\ \A name \in NamesOf(current.lp_recipes) :
              ~CalledOn("create_charm_recipe", name)

\* C29: the line diff prints for a project says "Changes required" exactly
\* if an entry of its result needs creating or updating or a declared branch
\* is missing in the repository, and "No changes needed" otherwise; and a
\* sync of a project that ends without an exception and without a write to
\* a recipe has found no entry that needs creating or updating.
C29_ChangesReportedIffNeeded ==
    (current.valid /\ status = "ok") =>
        /\ cmd.name = "diff" =>
              output[Len(output)].text =
                  IF \/ \E i \in 1..Len(Entries) : NeedsWork(Entries[i])
                     \/ current.missing_branches_in_repo # <<>>
                  THEN "Changes required" ELSE "No changes needed"
        /\ cmd.name = "sync" =>
              \A i \in 1..Len(Entries) : ~NeedsWork(Entries[i])

\* The lines of recipes among the lines printed.
RecipeLines == SelectSeq(output, LAMBDA line : line.text = "recipe")

\* The entries of the result whose recipe exists.
ExistingEntries == SelectSeq(Entries, LAMBDA entry : entry.exists)

\* C30: show_lauchpad_config ends without an exception for every result, and
\* prints one line for each entry whose recipe exists, in order, with the
\* recipe's name, also when the result holds an entry whose recipe does not
\* exist.
C30_ShowCompletes ==
    (phase = "shown" /\ current.valid) =>
        /\ status = "ok"
        /\ Len(RecipeLines) = Len(ExistingEntries)
        /\ \A i \in 1..Len(RecipeLines) :
              RecipeLines[i].name = ExistingEntries[i].name

====
